---- MODULE Spec2Model ----
(***************************************************************************)
(* Quota ledger, usage reconciler, model selector and request router of    *)
(* the AI notes backend (services/redisClient.js, services/modelRouter.js, *)
(* routes/modelRoute.js), with the reward credit of routes/rewardRoute.js, *)
(* the quota reset of routes/modelRoute.js and the purchase verification   *)
(* of routes/verifyPurchase.js and services/googlePlayClient.js.           *)
(*                                                                         *)
(* Every Redis command is one atomic step of the store; the JavaScript     *)
(* that runs between two awaits is executed together with the command that *)
(* resumes it.  Time is counted in seconds; Date.now() is now * 1000.      *)
(***************************************************************************)
EXTENDS Integers, Sequences, FiniteSets, TLC

VARIABLES store, now, fallbackModeUntil, procs, started, ticks, play

vars == <<store, now, fallbackModeUntil, procs, started, ticks, play>>

(* ------------------------------ bounds --------------------------------- *)

\* number of requests (of any kind) the model lets start
MaxRequests == 2
\* number of clock advances the model lets happen
MaxTicks == 1

\* request slots that may be in flight at the same time
Procs == {1, 2}
\* identities
Users == {"u1", "u2"}
\* word counts of prompt + systemPrompt
WordCounts == {1, 67}
\* maxTokens values of the request body (0 stands for an omitted field)
MaxTokensChoices == {0, 49}
\* total_tokens values the completion API reports
ReportedTokens == {0, 87}
\* clock advances, in seconds
ClockSteps == {60, 300}
\* rewardType values of the body of POST /reward
RewardTypes == {"tokens", "requests", "coins"}
\* amount values of the body of POST /reward
RewardAmounts == {-5, 10}
\* purchase tokens the storefront knows
PurchaseTokens == {"tokA", "tokB", "tokC", "tokS"}

(* ----------------------------- constants ------------------------------- *)

SecondsPerMinute == 60
SecondsPerDay == 86400
MinuteTtl == 60
DayTtl == 86400
\* a key without expiry (Redis TTL -1)
NoExpiry == -1
\* fallbackModeUntil = null
Null == -1
\* the usage field of the completion is missing
Absent == -1

\* TTL of a stored purchase record (one year)
PurchaseTtl == 31536000

GlobalRpmLimit == 30
GlobalRpdLimit == 14400
GlobalTpmLimit == 6000
GlobalTpdLimit == 500000
UserRpdLimit == 50
UserTpdLimit == 20000

FALLBACK_THRESHOLD_PERCENT == 70
FALLBACK_DURATION_MS == 5 * 60 * 1000
DefaultMaxTokens == 1000

MODELS == [default |-> "llama-3.1-8b-instant", fallback |-> "compound-mini"]
\* preferredModel values of the request body ("" stands for an omitted field)
PreferredChoices == {"", "llama-3.3-70b-versatile"}

RpmReason == "Global requests per minute limit exceeded (Groq API)"
RpdReason == "Global requests per day limit exceeded (Groq API)"
TpmReason == "Global tokens per minute limit exceeded (Groq API)"
TpdReason == "Global tokens per day limit exceeded (Groq API - 500K/day)"
UserRpdReason == "User requests per day limit exceeded (Your App Quota)"
UserTpdReason == "User tokens per day limit exceeded (Your App Quota)"

(* ------------------------------ time keys ------------------------------ *)

\* minuteBucket with the minutes left out of the key
minuteBucketHourly(t) == t \div 3600

\* `${year}-${month}-${date}-${hours}-${minutes}` names one UTC minute
minuteBucket(t) == t \div SecondsPerMinute
\* `${year}-${month}-${date}` names one UTC day
dayBucket(t) == t \div SecondsPerDay

globalRpmKey(minute) == <<"global", "rpm", minute>>
globalRpdKey(day) == <<"global", "rpd", day>>
globalTpmKey(minute) == <<"global", "tpm", minute>>
globalTpdKey(day) == <<"global", "tpd", day>>
userRpdKey(userId, day) == <<"user", "rpd", userId, day>>
\* userTpdKey with one counter shared by every identity
userTpdKeyShared(userId, day) == <<"user", "tpd", "all", day>>

userTpdKey(userId, day) == <<"user", "tpd", userId, day>>

\* the keys incrementRewardQuota builds: `${dimension}:${userId}:${bucket}`
rewardKey(dimension, userId, bucket) == <<dimension, userId, bucket>>

\* the glob `*:${userId}:*` of DELETE /resetQuota: the key holds the
\* identity between two colons
matchesUser(key, userId) == \E i \in 2..(Len(key) - 1) : key[i] = userId

(* ---------------------------- counter store ---------------------------- *)

\* redis.get + parseInt: 0 for a missing key
getCounter(s, key) == IF key \in DOMAIN s THEN s[key].val ELSE 0

\* incrby that writes the amount over the value the key already holds
incrbyOverwrite(s, key, amount) ==
    [k \in DOMAIN s \cup {key} |->
        IF k = key
        THEN [val |-> amount, exp |-> IF key \in DOMAIN s THEN s[key].exp ELSE NoExpiry]
        ELSE s[k]]

\* redis.incrby: creates the key without expiry, keeps an existing expiry
incrby(s, key, amount) ==
    IF key \in DOMAIN s
    THEN [s EXCEPT ![key].val = @ + amount]
    ELSE [k \in DOMAIN s \cup {key} |->
            IF k = key THEN [val |-> amount, exp |-> NoExpiry] ELSE s[k]]

\* redis.incr
incr(s, key) == incrby(s, key, 1)

\* redis.expire at time t: no effect on a missing key
expire(s, key, ttl, t) ==
    IF key \in DOMAIN s THEN [s EXCEPT ![key].exp = t + ttl] ELSE s

\* redis.del
del(s, keys) == [k \in DOMAIN s \ keys |-> s[k]]

\* the keys Redis still holds at time t
reap(s, t) ==
    [k \in {x \in DOMAIN s : s[x].exp = NoExpiry \/ s[x].exp > t} |-> s[k]]

\* redis.setex(key, ttl, value) at time t
setex(s, key, ttl, value, t) ==
    [k \in DOMAIN s \cup {key} |->
        IF k = key THEN [val |-> value, exp |-> t + ttl] ELSE s[k]]

\* purchase:${userId}:${orderId}
purchaseKey(userId, orderId) == <<"purchase", userId, orderId>>

(* ----------------------------- pure helpers ---------------------------- *)

\* Math.ceil(words * 0.75)
estimateTokens(words) == (3 * words + 3) \div 4

\* maxTokens || 1000 in the route, then promptTokens + maxTokens
estimatedTotalTokens(words, maxTokens) ==
    estimateTokens(words) + (IF maxTokens = 0 THEN DefaultMaxTokens ELSE maxTokens)

EmptyUsage == [rpm |-> 0, rpd |-> 0, tpm |-> 0, tpd |-> 0, userRpd |-> 0, userTpd |-> 0]

UsageField(i) ==
    CASE i = 1 -> "rpm" [] i = 2 -> "rpd" [] i = 3 -> "tpm"
      [] i = 4 -> "tpd" [] i = 5 -> "userRpd" [] OTHER -> "userTpd"

\* the i-th key read by checkAndIncrementLimits and by getQuotaStatus
UsageKey(i, userId, minute, day) ==
    CASE i = 1 -> globalRpmKey(minute) [] i = 2 -> globalRpdKey(day)
      [] i = 3 -> globalTpmKey(minute) [] i = 4 -> globalTpdKey(day)
      [] i = 5 -> userRpdKey(userId, day) [] OTHER -> userTpdKey(userId, day)

\* checkLimits with the identity rpd check moved ahead of the token checks
checkLimitsUserFirst(usage, tokensEstimated) ==
    IF usage.rpm >= GlobalRpmLimit THEN RpmReason
    ELSE IF usage.rpd >= GlobalRpdLimit THEN RpdReason
    ELSE IF usage.userRpd >= UserRpdLimit THEN UserRpdReason
    ELSE IF usage.tpm + tokensEstimated > GlobalTpmLimit THEN TpmReason
    ELSE IF usage.tpd + tokensEstimated > GlobalTpdLimit THEN TpdReason
    ELSE IF usage.userTpd + tokensEstimated > UserTpdLimit THEN UserTpdReason
    ELSE ""

\* the chain of limit checks of checkAndIncrementLimits; "" when all pass
checkLimits(usage, tokensEstimated) ==
    IF usage.rpm >= GlobalRpmLimit THEN RpmReason
    ELSE IF usage.rpd >= GlobalRpdLimit THEN RpdReason
    ELSE IF usage.tpm + tokensEstimated > GlobalTpmLimit THEN TpmReason
    ELSE IF usage.tpd + tokensEstimated > GlobalTpdLimit THEN TpdReason
    ELSE IF usage.userRpd >= UserRpdLimit THEN UserRpdReason
    ELSE IF usage.userTpd + tokensEstimated > UserTpdLimit THEN UserTpdReason
    ELSE ""

\* IncrKey charging the identity's token counter instead of its request counter
IncrKeyTokens(i, userId, minute, day) ==
    CASE i = 1 -> globalRpmKey(minute) [] i = 2 -> globalRpdKey(day)
      [] OTHER -> userTpdKey(userId, day)

\* the i-th counter incremented by checkAndIncrementLimits and its TTL
IncrKey(i, userId, minute, day) ==
    CASE i = 1 -> globalRpmKey(minute) [] i = 2 -> globalRpdKey(day)
      [] OTHER -> userRpdKey(userId, day)

IncrTtlHalfMinute(i) == IF i = 1 THEN 30 ELSE DayTtl

IncrTtl(i) == IF i = 1 THEN MinuteTtl ELSE DayTtl

\* the i-th counter updated by recordActualTokenUsage and its TTL
RecordKey(i, userId, minute, day) ==
    CASE i = 1 -> globalTpmKey(minute) [] i = 2 -> globalTpdKey(day)
      [] OTHER -> userTpdKey(userId, day)

\* RecordTtl with the minute TTL on every counter
RecordTtlMinute(i) == MinuteTtl

RecordTtl(i) == IF i = 1 THEN MinuteTtl ELSE DayTtl

\* the counter incrementRewardQuota credits
RewardCreditKey(rewardType, userId, day) ==
    rewardKey(IF rewardType = "tokens" THEN "tpd" ELSE "rpd", userId, day)

\* the i-th key incrementRewardQuota reads for its answer
RewardUsageKey(i, userId, minute, day) ==
    CASE i = 1 -> rewardKey("rpm", userId, minute)
      [] i = 2 -> rewardKey("rpd", userId, day)
      [] i = 3 -> rewardKey("tpm", userId, minute)
      [] OTHER -> rewardKey("tpd", userId, day)

RewardUsageField(i) ==
    CASE i = 1 -> "rpm" [] i = 2 -> "rpd" [] i = 3 -> "tpm" [] OTHER -> "tpd"

\* chatCompletion.usage?.total_tokens || estimatedTotalTokens
actualTokensUsed(totalTokens, estimate) ==
    IF totalTokens = Absent \/ totalTokens = 0 THEN estimate ELSE totalTokens

\* OverThreshold with >= in place of >
OverThresholdInclusive(usage) ==
    \/ usage.tpd * 100 >= FALLBACK_THRESHOLD_PERCENT * GlobalTpdLimit
    \/ usage.rpm * 100 >= FALLBACK_THRESHOLD_PERCENT * GlobalRpmLimit

\* tpdPercent > FALLBACK_THRESHOLD || rpmPercent > FALLBACK_THRESHOLD
OverThreshold(usage) ==
    \/ usage.tpd * 100 > FALLBACK_THRESHOLD_PERCENT * GlobalTpdLimit
    \/ usage.rpm * 100 > FALLBACK_THRESHOLD_PERCENT * GlobalRpmLimit

\* tpdPercent < 0.5 && rpmPercent < 0.5
UnderRecovery(usage) ==
    /\ usage.tpd * 2 < GlobalTpdLimit
    /\ usage.rpm * 2 < GlobalRpmLimit

\* InHold with the hold still on at the deadline itself
InHoldInclusive(until, nowMs) == until # Null /\ nowMs <= until

\* fallbackModeUntil && now < fallbackModeUntil
InHold(until, nowMs) == until # Null /\ nowMs < until

\* selectedModel without the hysteresis check
selectedModelNoHold(until, nowMs, usage, preferredModel) ==
    IF OverThreshold(usage) THEN MODELS.fallback
    ELSE IF preferredModel # "" THEN preferredModel ELSE MODELS.default

\* the tier selectModel returns
selectedModel(until, nowMs, usage, preferredModel) ==
    IF InHold(until, nowMs) THEN MODELS.fallback
    ELSE IF OverThreshold(usage) THEN MODELS.fallback
    ELSE IF preferredModel # "" THEN preferredModel ELSE MODELS.default

\* the value selectModel leaves in fallbackModeUntil
nextFallbackModeUntil(until, nowMs, usage) ==
    IF InHold(until, nowMs) THEN until
    ELSE IF OverThreshold(usage) THEN nowMs + FALLBACK_DURATION_MS
    ELSE IF UnderRecovery(usage) THEN Null
    ELSE until

(* ------------------------------ purchases ------------------------------ *)

TOKEN_AMOUNTS ==
    [ai_notes_tokens_5k |-> 5000, ai_notes_tokens_15k |-> 15000,
     ai_notes_tokens_50k |-> 50000]

\* TOKEN_AMOUNTS[productId] || 0
tokensGranted(productId) ==
    IF productId \in DOMAIN TOKEN_AMOUNTS THEN TOKEN_AMOUNTS[productId] ELSE 0

\* productId.includes('subscription') || productId.includes('premium'), over
\* the product ids the storefront sells
isSubscription(productId) == productId \in {"premium_monthly"}

\* what the storefront holds for each purchase token: a completed and
\* unconsumed token pack, a pending one, a consumed one, and a subscription
\* that runs out 120 s after the start
Storefront ==
    [t \in PurchaseTokens |->
        CASE t = "tokA" ->
               [productId |-> "ai_notes_tokens_5k", orderId |-> "GPA.1",
                purchaseState |-> 0, consumptionState |-> 0,
                acknowledgementState |-> 0, purchaseTimeMillis |-> 1,
                expiryTimeMillis |-> Absent]
          [] t = "tokB" ->
               [productId |-> "ai_notes_tokens_5k", orderId |-> "GPA.2",
                purchaseState |-> 2, consumptionState |-> 0,
                acknowledgementState |-> 0, purchaseTimeMillis |-> 1,
                expiryTimeMillis |-> Absent]
          [] t = "tokC" ->
               [productId |-> "ai_notes_tokens_5k", orderId |-> "GPA.3",
                purchaseState |-> 0, consumptionState |-> 1,
                acknowledgementState |-> 1, purchaseTimeMillis |-> 1,
                expiryTimeMillis |-> Absent]
          [] OTHER ->
               [productId |-> "premium_monthly", orderId |-> "GPA.4",
                purchaseState |-> 0, consumptionState |-> 0,
                acknowledgementState |-> 1, purchaseTimeMillis |-> 1,
                expiryTimeMillis |-> 120000]]

\* productId and purchaseToken of the bodies of POST /verifyPurchase: every
\* token with the product it was bought for, and a body without a token
PurchaseRequests ==
    {<<Storefront[t].productId, t>> : t \in PurchaseTokens}
        \cup {<<"ai_notes_tokens_5k", "">>}

NoVerification ==
    [valid |-> FALSE, reason |-> "", orderId |-> "",
     purchaseTime |-> Absent, expiryTime |-> Absent,
     acknowledgementState |-> Absent]

\* verifyProductPurchase on the answer of purchases.products.get
verifyProductPurchase(purchase) ==
    IF purchase.purchaseState # 0
    THEN [NoVerification EXCEPT !.reason = "Purchase not completed"]
    ELSE IF purchase.consumptionState = 1
    THEN [NoVerification EXCEPT !.reason = "Purchase already consumed"]
    ELSE [NoVerification EXCEPT
            !.valid = TRUE, !.orderId = purchase.orderId,
            !.purchaseTime = purchase.purchaseTimeMillis,
            !.acknowledgementState = purchase.acknowledgementState]

\* verifySubscriptionPurchase on the answer of purchases.subscriptions.get,
\* at Date.now() = t * 1000
verifySubscriptionPurchase(subscription, t) ==
    IF subscription.expiryTimeMillis < t * 1000
    THEN [NoVerification EXCEPT
            !.reason = "Subscription expired",
            !.expiryTime = subscription.expiryTimeMillis]
    ELSE [NoVerification EXCEPT
            !.valid = TRUE, !.orderId = subscription.orderId,
            !.purchaseTime = subscription.purchaseTimeMillis,
            !.expiryTime = subscription.expiryTimeMillis]

NoPurchase ==
    [userId |-> "", productId |-> "", orderId |-> "", purchaseTime |-> Absent,
     expiryTime |-> Absent, verifiedAt |-> Absent]

\* the purchaseData object of POST /verifyPurchase, built at Date.now() = t * 1000
purchaseData(userId, productId, verification, t) ==
    [userId |-> userId, productId |-> productId,
     orderId |-> verification.orderId,
     purchaseTime |-> verification.purchaseTime,
     expiryTime |-> verification.expiryTime, verifiedAt |-> t * 1000]

(* ------------------------------- state --------------------------------- *)

\* a request slot: the locals of one invocation and what it has returned.
\* admit: how checkAndIncrementLimits ended (allowed, rejected, threw);
\* incs: which of its three increments Redis has executed;
\* api: the state of the groq.chat.completions.create call;
\* total: the total_tokens the completion carried (Absent when it had none);
\* rec: how recordActualTokenUsage ended; recs: which of its three incrby
\* Redis has executed; result: what the handler returned;
\* rewardType, amount: the body of POST /reward; found: the keys redis.keys
\* returned to DELETE /resetQuota
IdleProc ==
    [op |-> "none", pc |-> "idle", idx |-> 0, userId |-> "u1",
     est |-> 0, preferred |-> "", minute |-> 0, day |-> 0,
     usage |-> EmptyUsage, admit |-> "none", reason |-> "",
     model |-> "none", actual |-> 0, rec |-> "none", result |-> "none",
     incs |-> {}, api |-> "none", total |-> Absent, recs |-> {},
     rewardType |-> "", amount |-> 0, found |-> {},
     productId |-> "", token |-> "", verification |-> NoVerification,
     purchase |-> NoPurchase, granted |-> 0]

\* a store holding the counters of usage u for identity "u1", created at second 0
StoreOf(u) ==
    LET keyOf(i) == UsageKey(i, "u1", 0, 0)
        live == {i \in 1..6 : u[UsageField(i)] > 0}
    IN  [k \in {keyOf(i) : i \in live} |->
            LET i == CHOOSE j \in live : keyOf(j) = k
            IN  [val |-> u[UsageField(i)],
                 exp |-> IF i \in {1, 3} THEN MinuteTtl ELSE DayTtl]]

\* counter values left in Redis by earlier traffic
InitUsages ==
    { EmptyUsage,
      [EmptyUsage EXCEPT !.rpm = 29, !.rpd = 14399, !.userRpd = 49],
      [EmptyUsage EXCEPT !.tpm = 5950, !.tpd = 499950, !.userTpd = 19950],
      [rpm |-> 30, rpd |-> 14400, tpm |-> 6000, tpd |-> 500000,
       userRpd |-> 50, userTpd |-> 20000] }

\* counter values left in Redis when two routed requests arrive together
RouteUsages ==
    { EmptyUsage,
      [EmptyUsage EXCEPT !.tpm = 5900, !.tpd = 499900, !.userTpd = 19950] }

\* counter values left in Redis when two requests of one identity arrive together
PairUsages ==
    { EmptyUsage,
      [EmptyUsage EXCEPT !.tpm = 5900, !.tpd = 499900, !.userTpd = 19800] }

\* counter values around the fallback thresholds
SelectUsages ==
    { [EmptyUsage EXCEPT !.rpm = 21, !.tpd = 350000],
      [EmptyUsage EXCEPT !.rpm = 22, !.tpd = 300000] }

\* every combination of counters below, at the edge of and at their limits
LimitUsages ==
    [rpm : {29, 30}, rpd : {14399, 14400}, tpm : {0, 5950, 6000},
     tpd : {0, 499950}, userRpd : {49, 50}, userTpd : {0, 19950, 20000}]

Init ==
    /\ \E u \in InitUsages \cup RouteUsages \cup PairUsages \cup SelectUsages
                 \cup LimitUsages :
         store = StoreOf(u)
    /\ now = 0
    /\ fallbackModeUntil = Null
    /\ procs = [p \in Procs |-> IdleProc]
    /\ started = 0
    /\ ticks = 0
    /\ play = Storefront

\* slots are interchangeable: the next request takes the lowest idle one
LowestIdle(p) ==
    /\ procs[p].pc = "idle"
    /\ \A o \in Procs : o < p => procs[o].pc # "idle"

\* Thrown with the failure swallowed: the handler goes on to selectModel
ThrownFailOpen(q, admitState) ==
    [q EXCEPT !.admit = admitState, !.pc = "status_read", !.idx = 1,
              !.usage = EmptyUsage]

\* a rejected Redis command reaches the catch block of the handler
Thrown(q, admitState) ==
    [q EXCEPT !.pc = "done", !.admit = admitState, !.result = "error"]

(* ---------------------- POST /routeModel: admission -------------------- *)

\* routeModelRequest up to the first getCounter of checkAndIncrementLimits
RouteStart(p, u, w, m) ==
    /\ procs[p].pc = "idle"
    /\ procs' = [procs EXCEPT ![p] =
                   [IdleProc EXCEPT !.op = "route", !.pc = "admit_read", !.idx = 1,
                      !.userId = u, !.est = estimatedTotalTokens(w, m),
                      !.minute = minuteBucket(now), !.day = dayBucket(now)]]
    /\ started < MaxRequests
    /\ started' = started + 1
    /\ UNCHANGED <<store, now, fallbackModeUntil, ticks, play>>

\* the remainingQuota object of the answers of routeModelRequest
remainingQuota(usage) ==
    [tokensPerMinute |-> GlobalTpmLimit - usage.tpm,
     tokensPerDay |-> GlobalTpdLimit - usage.tpd,
     requestsPerMinute |-> GlobalRpmLimit - usage.rpm,
     requestsPerDay |-> GlobalRpdLimit - usage.rpd]

\* AfterAdmitRead with a rejected request going on to selectModel
AfterAdmitReadSelects(q, s) ==
    LET u == [q.usage EXCEPT ![UsageField(q.idx)] =
                getCounter(s, UsageKey(q.idx, q.userId, q.minute, q.day))]
        why == checkLimits(u, q.est)
    IN  IF q.idx < 6 THEN [q EXCEPT !.usage = u, !.idx = q.idx + 1]
        ELSE IF why # ""
             THEN [q EXCEPT !.usage = u, !.pc = "status_read", !.idx = 1,
                            !.admit = "rejected", !.reason = why]
             ELSE [q EXCEPT !.usage = u, !.pc = "admit_incr", !.idx = 1]

\* what the i-th getCounter of checkAndIncrementLimits leaves in the locals;
\* the sixth is followed by the limit checks
AfterAdmitRead(q, s) ==
    LET u == [q.usage EXCEPT ![UsageField(q.idx)] =
                getCounter(s, UsageKey(q.idx, q.userId, q.minute, q.day))]
        why == checkLimits(u, q.est)
    IN  IF q.idx < 6 THEN [q EXCEPT !.usage = u, !.idx = q.idx + 1]
        ELSE IF why # ""
             THEN [q EXCEPT !.usage = u, !.pc = "done", !.admit = "rejected",
                            !.reason = why, !.result = "rejected"]
             ELSE [q EXCEPT !.usage = u, !.pc = "admit_incr", !.idx = 1]

\* StoreAfterAdmitRead with the rpm counter incremented before the checks
StoreAfterAdmitReadEager(q, s) ==
    IF q.idx = 6 THEN incr(s, globalRpmKey(q.minute)) ELSE s

\* the store after the i-th getCounter of checkAndIncrementLimits
StoreAfterAdmitRead(q, s) == s

\* one getCounter of checkAndIncrementLimits
AdmitRead(p) ==
    /\ procs[p].pc = "admit_read"
    /\ \E ok \in BOOLEAN :
         IF ok
         THEN /\ procs' = [procs EXCEPT ![p] = AfterAdmitRead(procs[p], store)]
              /\ store' = StoreAfterAdmitRead(procs[p], store)
         ELSE /\ procs' = [procs EXCEPT ![p] = Thrown(procs[p], "threw")]
              /\ store' = store
    /\ UNCHANGED <<now, fallbackModeUntil, started, ticks, play>>

\* checkAndIncrementLimits returned allowed: selectModel calls getQuotaStatus
Admitted(q, t) ==
    [q EXCEPT !.admit = "allowed", !.pc = "status_read", !.idx = 1,
              !.usage = EmptyUsage, !.minute = minuteBucket(t), !.day = dayBucket(t)]

\* the step after the i-th incrementCounter has finished
AfterIncrement(q, t) ==
    IF q.idx < 3 THEN [q EXCEPT !.pc = "admit_incr", !.idx = q.idx + 1]
    ELSE Admitted(q, t)

\* redis.incr of incrementCounter
AdmitIncr(p) ==
    LET q == procs[p]
        key == IncrKey(q.idx, q.userId, q.minute, q.day)
        s == incr(store, key)
    IN  /\ q.pc = "admit_incr"
        /\ \E ok \in BOOLEAN :
             IF ok
             THEN /\ store' = s
                  /\ procs' = [procs EXCEPT ![p] =
                       LET r == [q EXCEPT !.incs = @ \cup {q.idx}]
                       IN  IF s[key].val = 1 THEN [r EXCEPT !.pc = "admit_expire"]
                           ELSE AfterIncrement(r, now)]
             ELSE /\ procs' = [procs EXCEPT ![p] = Thrown(q, "threw")]
                  /\ store' = store
        /\ UNCHANGED <<now, fallbackModeUntil, started, ticks, play>>

\* redis.expire of incrementCounter, issued when incr returned 1
AdmitExpire(p) ==
    LET q == procs[p]
        key == IncrKey(q.idx, q.userId, q.minute, q.day)
    IN  /\ q.pc = "admit_expire"
        /\ \E ok \in BOOLEAN :
             IF ok
             THEN /\ store' = expire(store, key, IncrTtl(q.idx), now)
                  /\ procs' = [procs EXCEPT ![p] = AfterIncrement(q, now)]
             ELSE /\ procs' = [procs EXCEPT ![p] = Thrown(q, "threw")]
                  /\ store' = store
        /\ UNCHANGED <<now, fallbackModeUntil, started, ticks, play>>

(* ------------------- getQuotaStatus and selectModel -------------------- *)

\* GET /quotaStatus/:userId up to the first getCounter of getQuotaStatus
StatusStart(p, u) ==
    /\ procs[p].pc = "idle"
    /\ procs' = [procs EXCEPT ![p] =
                   [IdleProc EXCEPT !.op = "status", !.pc = "status_read", !.idx = 1,
                      !.userId = u,
                      !.minute = minuteBucket(now), !.day = dayBucket(now)]]
    /\ started < MaxRequests
    /\ started' = started + 1
    /\ UNCHANGED <<store, now, fallbackModeUntil, ticks, play>>

\* getRecommendedModel up to the first getCounter of getQuotaStatus
RecommendStart(p, u) ==
    /\ procs[p].pc = "idle"
    /\ procs' = [procs EXCEPT ![p] =
                   [IdleProc EXCEPT !.op = "recommend", !.pc = "status_read", !.idx = 1,
                      !.userId = u,
                      !.minute = minuteBucket(now), !.day = dayBucket(now)]]
    /\ started < MaxRequests
    /\ started' = started + 1
    /\ UNCHANGED <<store, now, fallbackModeUntil, ticks, play>>

\* StatusRead with the TTL of the key read refreshed
StatusReadTouching(p) ==
    LET q == procs[p]
        key == UsageKey(q.idx, q.userId, q.minute, q.day)
        u == [q.usage EXCEPT ![UsageField(q.idx)] = getCounter(store, key)]
    IN  /\ q.pc = "status_read"
        /\ procs' = [procs EXCEPT ![p] =
               IF q.idx < 6 THEN [q EXCEPT !.usage = u, !.idx = q.idx + 1]
               ELSE IF q.op = "status"
                    THEN [q EXCEPT !.usage = u, !.pc = "done", !.result = "success"]
                    ELSE [q EXCEPT !.usage = u, !.pc = "select_decide"]]
        /\ store' = expire(store, key, DayTtl, now)
        /\ UNCHANGED <<now, fallbackModeUntil, started, ticks, play>>

\* one getCounter of getQuotaStatus
StatusRead(p) ==
    LET q == procs[p]
        u == [q.usage EXCEPT ![UsageField(q.idx)] =
                getCounter(store, UsageKey(q.idx, q.userId, q.minute, q.day))]
    IN  /\ q.pc = "status_read"
        /\ \E ok \in BOOLEAN :
             procs' = [procs EXCEPT ![p] =
               IF ~ok THEN Thrown(q, q.admit)
               ELSE IF q.idx < 6 THEN [q EXCEPT !.usage = u, !.idx = q.idx + 1]
               ELSE IF q.op = "status"
                    THEN [q EXCEPT !.usage = u, !.pc = "done", !.result = "success"]
                    ELSE [q EXCEPT !.usage = u, !.pc = "select_decide"]]
        /\ UNCHANGED <<store, now, fallbackModeUntil, started, ticks, play>>

\* selectModel after the await: one synchronous block reading Date.now().
\* The preferredModel argument is not read before this block, so the model
\* draws it here.
SelectDecide(p) ==
    LET q == procs[p]
        nowMs == now * 1000
    IN  /\ q.pc = "select_decide"
        /\ fallbackModeUntil' = nextFallbackModeUntil(fallbackModeUntil, nowMs, q.usage)
        /\ \E pref \in (IF q.op = "recommend" THEN {""} ELSE PreferredChoices) :
             LET tier == selectedModel(fallbackModeUntil, nowMs, q.usage, pref)
             IN  procs' = [procs EXCEPT ![p] =
                   IF q.op = "recommend"
                   THEN [q EXCEPT !.model = tier, !.preferred = pref,
                                  !.pc = "done", !.result = "success"]
                   ELSE [q EXCEPT !.model = tier, !.preferred = pref, !.pc = "call",
                                  !.idx = 0, !.api = "pending"]]
        /\ UNCHANGED <<store, now, started, ticks, play>>

(* --------------- downstream call and recordActualTokenUsage ------------ *)

\* groq.chat.completions.create returns; recordActualTokenUsage issues its first incrby
ApiReturn(p, total) ==
    LET q == procs[p]
    IN  /\ q.pc = "call"
        /\ procs' = [procs EXCEPT ![p] =
                 [q EXCEPT !.actual = actualTokensUsed(total, q.est),
                           !.total = total, !.api = "returned",
                           !.pc = "rec_incr", !.idx = 1,
                           !.minute = minuteBucket(now), !.day = dayBucket(now)]]
        /\ UNCHANGED <<store, now, fallbackModeUntil, started, ticks, play>>

\* ApiFail with the estimate recorded for the failed call
ApiFailRecords(p) ==
    /\ procs[p].pc = "call"
    /\ procs' = [procs EXCEPT ![p] =
                   [procs[p] EXCEPT !.api = "failed", !.actual = procs[p].est,
                                    !.pc = "rec_incr", !.idx = 1]]
    /\ UNCHANGED <<store, now, fallbackModeUntil, started, ticks, play>>

\* groq.chat.completions.create throws: the catch of routeModelRequest
ApiFail(p) ==
    /\ procs[p].pc = "call"
    /\ procs' = [procs EXCEPT ![p] = Thrown([procs[p] EXCEPT !.api = "failed"],
                                             procs[p].admit)]
    /\ UNCHANGED <<store, now, fallbackModeUntil, started, ticks, play>>

\* RecordFailed with the failure turned into an error answer
RecordFailedRejects(q) == [q EXCEPT !.rec = "failed", !.pc = "done", !.result = "error"]

\* recordActualTokenUsage failed inside its try: the router goes on to its return
RecordFailed(q) == [q EXCEPT !.rec = "failed", !.pc = "done", !.result = "success"]

\* one redis.incrby of recordActualTokenUsage
RecIncr(p) ==
    LET q == procs[p]
        key == RecordKey(q.idx, q.userId, q.minute, q.day)
    IN  /\ q.pc = "rec_incr"
        /\ \E ok \in BOOLEAN :
             IF ok
             THEN /\ store' = incrby(store, key, q.actual)
                  /\ procs' = [procs EXCEPT ![p] =
                       LET r == [q EXCEPT !.recs = @ \cup {q.idx}]
                       IN  IF q.idx < 3 THEN [r EXCEPT !.idx = q.idx + 1]
                           ELSE [r EXCEPT !.pc = "rec_expire", !.idx = 1]]
             ELSE /\ procs' = [procs EXCEPT ![p] = RecordFailed(q)]
                  /\ store' = store
        /\ UNCHANGED <<now, fallbackModeUntil, started, ticks, play>>

\* one redis.expire of recordActualTokenUsage
RecExpire(p) ==
    LET q == procs[p]
        key == RecordKey(q.idx, q.userId, q.minute, q.day)
    IN  /\ q.pc = "rec_expire"
        /\ \E ok \in BOOLEAN :
             IF ok
             THEN /\ store' = expire(store, key, RecordTtl(q.idx), now)
                  /\ procs' = [procs EXCEPT ![p] =
                       IF q.idx < 3 THEN [q EXCEPT !.idx = q.idx + 1]
                       ELSE [q EXCEPT !.rec = "ok", !.pc = "done", !.result = "success"]]
             ELSE /\ procs' = [procs EXCEPT ![p] = RecordFailed(q)]
                  /\ store' = store
        /\ UNCHANGED <<now, fallbackModeUntil, started, ticks, play>>

(* ----------------------------- POST /reward ---------------------------- *)

\* the handler of POST /reward and incrementRewardQuota up to redis.incrby;
\* an unknown rewardType is answered with success:false before any command
RewardStart(p, u, rewardType, amount) ==
    /\ procs[p].pc = "idle"
    /\ procs' = [procs EXCEPT ![p] =
         LET q == [IdleProc EXCEPT !.op = "reward", !.userId = u,
                      !.rewardType = rewardType, !.amount = amount,
                      !.minute = minuteBucket(now), !.day = dayBucket(now)]
         IN  IF amount = 0 \/ rewardType \notin {"tokens", "requests"}
             THEN [q EXCEPT !.pc = "done", !.result = "rejected"]
             ELSE [q EXCEPT !.pc = "reward_incr"]]
    /\ started < MaxRequests
    /\ started' = started + 1
    /\ UNCHANGED <<store, now, fallbackModeUntil, ticks, play>>

\* redis.incrby of incrementRewardQuota
RewardIncr(p) ==
    LET q == procs[p]
        key == RewardCreditKey(q.rewardType, q.userId, q.day)
    IN  /\ q.pc = "reward_incr"
        /\ \E ok \in BOOLEAN :
             IF ok
             THEN /\ store' = incrby(store, key, q.amount)
                  /\ procs' = [procs EXCEPT ![p] =
                                 [q EXCEPT !.pc = "reward_read", !.idx = 1]]
             ELSE /\ procs' = [procs EXCEPT ![p] = Thrown(q, q.admit)]
                  /\ store' = store
        /\ UNCHANGED <<now, fallbackModeUntil, started, ticks, play>>

\* one getCounter of the usage incrementRewardQuota returns
RewardRead(p) ==
    LET q == procs[p]
        u == [q.usage EXCEPT ![RewardUsageField(q.idx)] =
                getCounter(store, RewardUsageKey(q.idx, q.userId, q.minute, q.day))]
    IN  /\ q.pc = "reward_read"
        /\ \E ok \in BOOLEAN :
             procs' = [procs EXCEPT ![p] =
               IF ~ok THEN Thrown(q, q.admit)
               ELSE IF q.idx < 4 THEN [q EXCEPT !.usage = u, !.idx = q.idx + 1]
               ELSE [q EXCEPT !.usage = u, !.pc = "done", !.result = "success"]]
        /\ UNCHANGED <<store, now, fallbackModeUntil, started, ticks, play>>

(* ----------------------- DELETE /resetQuota/:userId -------------------- *)

\* the handler up to redis.keys
ResetStart(p, u) ==
    /\ procs[p].pc = "idle"
    /\ procs' = [procs EXCEPT ![p] =
                   [IdleProc EXCEPT !.op = "reset", !.pc = "reset_keys", !.userId = u]]
    /\ started < MaxRequests
    /\ started' = started + 1
    /\ UNCHANGED <<store, now, fallbackModeUntil, ticks, play>>

\* redis.keys(pattern); redis.del is issued only for a non-empty answer
ResetKeys(p) ==
    LET q == procs[p]
        keys == {k \in DOMAIN store : matchesUser(k, q.userId)}
    IN  /\ q.pc = "reset_keys"
        /\ \E ok \in BOOLEAN :
             procs' = [procs EXCEPT ![p] =
               IF ~ok THEN Thrown(q, q.admit)
               ELSE IF keys = {}
                    THEN [q EXCEPT !.found = keys, !.pc = "done", !.result = "success"]
                    ELSE [q EXCEPT !.found = keys, !.pc = "reset_del"]]
        /\ UNCHANGED <<store, now, fallbackModeUntil, started, ticks, play>>

\* redis.del(...keys)
ResetDel(p) ==
    LET q == procs[p]
    IN  /\ q.pc = "reset_del"
        /\ \E ok \in BOOLEAN :
             IF ok
             THEN /\ store' = del(store, q.found)
                  /\ procs' = [procs EXCEPT ![p] =
                                 [q EXCEPT !.pc = "done", !.result = "success"]]
             ELSE /\ procs' = [procs EXCEPT ![p] = Thrown(q, q.admit)]
                  /\ store' = store
        /\ UNCHANGED <<now, fallbackModeUntil, started, ticks, play>>

(* -------------------------- POST /verifyPurchase ----------------------- *)

\* the handler up to its first await: a body with a missing field is
\* answered 400 at once
VerifyStart(p, u, productId, token) ==
    /\ procs[p].pc = "idle"
    /\ started < MaxRequests
    /\ started' = started + 1
    /\ procs' = [procs EXCEPT ![p] =
                   IF productId = "" \/ token = "" \/ u = ""
                   THEN [IdleProc EXCEPT !.op = "verify", !.pc = "done",
                                         !.userId = u, !.productId = productId,
                                         !.token = token, !.result = "bad_request"]
                   ELSE [IdleProc EXCEPT !.op = "verify", !.pc = "verify_get",
                                         !.userId = u, !.productId = productId,
                                         !.token = token]]
    /\ UNCHANGED <<store, now, fallbackModeUntil, ticks, play>>

\* verifySubscriptionPurchase / verifyProductPurchase return or throw; an
\* invalid purchase is answered valid:false, a valid one builds purchaseData
VerifyGet(p) ==
    LET q == procs[p]
        verification ==
            IF isSubscription(q.productId)
            THEN verifySubscriptionPurchase(play[q.token], now)
            ELSE verifyProductPurchase(play[q.token])
    IN  /\ q.pc = "verify_get"
        /\ \E ok \in BOOLEAN :
             procs' = [procs EXCEPT ![p] =
               IF ~ok THEN Thrown(q, q.admit)
               ELSE IF ~verification.valid
                    THEN [q EXCEPT !.verification = verification,
                                   !.reason = verification.reason,
                                   !.pc = "done", !.result = "invalid"]
                    ELSE [q EXCEPT !.verification = verification,
                                   !.purchase = purchaseData(q.userId, q.productId,
                                                             verification, now),
                                   !.pc = "verify_store"]]
        /\ UNCHANGED <<store, now, fallbackModeUntil, started, ticks, play>>

\* the answer valid:true of POST /verifyPurchase
Granted(q) ==
    [q EXCEPT !.pc = "done", !.result = "success",
              !.granted = tokensGranted(q.productId)]

\* storePurchase; a token pack the storefront reported unacknowledged goes on
\* to acknowledgePurchase, anything else is answered valid:true
VerifyStore(p) ==
    LET q == procs[p]
    IN  /\ q.pc = "verify_store"
        /\ \E ok \in BOOLEAN :
             IF ok
             THEN /\ store' = setex(store, purchaseKey(q.userId, q.purchase.orderId),
                                    PurchaseTtl, q.purchase, now)
                  /\ procs' = [procs EXCEPT ![p] =
                       IF ~isSubscription(q.productId)
                            /\ q.verification.acknowledgementState = 0
                       THEN [q EXCEPT !.pc = "verify_ack"]
                       ELSE Granted(q)]
             ELSE /\ procs' = [procs EXCEPT ![p] = Thrown(q, q.admit)]
                  /\ store' = store
        /\ UNCHANGED <<now, fallbackModeUntil, started, ticks, play>>

\* acknowledgePurchase: a failure of purchases.products.acknowledge is logged
\* and the handler answers valid:true all the same
VerifyAck(p) ==
    LET q == procs[p]
    IN  /\ q.pc = "verify_ack"
        /\ \E ok \in BOOLEAN :
             play' = IF ok
                     THEN [play EXCEPT ![q.token].acknowledgementState = 1]
                     ELSE play
        /\ procs' = [procs EXCEPT ![p] = Granted(q)]
        /\ UNCHANGED <<store, now, fallbackModeUntil, started, ticks>>

(* ----------------------------- environment ----------------------------- *)

\* the wall clock advances; Redis drops the keys whose TTL has elapsed
Tick ==
    /\ ticks < MaxTicks
    /\ \E d \in ClockSteps :
         /\ now' = now + d
         /\ store' = reap(store, now + d)
    /\ ticks' = ticks + 1
    /\ UNCHANGED <<fallbackModeUntil, procs, started, play>>

\* the response has been sent: the slot serves the next request
Release(p) ==
    /\ procs[p].pc = "done"
    /\ started < MaxRequests
    /\ procs' = [procs EXCEPT ![p] = IdleProc]
    /\ UNCHANGED <<store, now, fallbackModeUntil, started, ticks, play>>

(* --------------------------- specifications ---------------------------- *)

InitRoute ==
    /\ Init
    /\ store \in {StoreOf(u) : u \in RouteUsages}

\* POST /routeModel requests in flight together, one per slot
Next ==
    \/ \E p \in Procs, u \in Users :
          LowestIdle(p) /\ RouteStart(p, u, 67, 49)
    \/ \E p \in Procs : AdmitRead(p)
    \/ \E p \in Procs : AdmitIncr(p)
    \/ \E p \in Procs : AdmitExpire(p)
    \/ \E p \in Procs : StatusRead(p)
    \/ \E p \in Procs : SelectDecide(p)
    \/ \E p \in Procs, total \in {87, Absent} : ApiReturn(p, total)
    \/ \E p \in Procs : ApiFail(p)
    \/ \E p \in Procs : RecIncr(p)
    \/ \E p \in Procs : RecExpire(p)

Spec == InitRoute /\ [][Next]_vars

\* the admission phase alone: no request gets past checkAndIncrementLimits,
\* so no token is recorded; a slot whose call was rejected or threw is reused
NextAdmit ==
    \/ \E p \in Procs, u \in Users, w \in WordCounts :
          LowestIdle(p) /\ RouteStart(p, u, w, 49)
    \/ \E p \in Procs : AdmitRead(p)
    \/ \E p \in Procs : AdmitIncr(p)
    \/ \E p \in Procs : AdmitExpire(p)
    \/ \E p \in Procs : Release(p)

InitAdmit ==
    /\ Init
    /\ store \in {StoreOf(u) : u \in InitUsages}

SpecAdmit == InitAdmit /\ [][NextAdmit]_vars

\* one caller of checkAndIncrementLimits at a time, over every combination of
\* counters at the edge of their limits
InitLimits ==
    /\ Init
    /\ store \in {StoreOf(u) : u \in LimitUsages}

NextLimits ==
    \/ \E u \in Users, w \in WordCounts, m \in MaxTokensChoices :
          RouteStart(1, u, w, m)
    \/ AdmitRead(1)
    \/ AdmitIncr(1)
    \/ AdmitExpire(1)
    \/ Release(1)

SpecLimits == InitLimits /\ [][NextLimits]_vars

InitSelect ==
    /\ Init
    /\ store \in {StoreOf(u) : u \in SelectUsages}

\* model selection over time: slot 1 serves POST /routeModel, slot 2 serves
\* getRecommendedModel, and the clock advances
NextSelect ==
    \/ RouteStart(1, "u1", 67, 49)
    \/ RecommendStart(2, "u1")
    \/ \E p \in Procs : AdmitRead(p)
    \/ \E p \in Procs : AdmitIncr(p)
    \/ \E p \in Procs : AdmitExpire(p)
    \/ \E p \in Procs : StatusRead(p)
    \/ \E p \in Procs : SelectDecide(p)
    \/ \E p \in Procs, total \in {87, Absent} : ApiReturn(p, total)
    \/ \E p \in Procs : ApiFail(p)
    \/ \E p \in Procs : RecIncr(p)
    \/ \E p \in Procs : RecExpire(p)
    \/ Tick

SpecSelect == InitSelect /\ [][NextSelect]_vars

InitPair ==
    /\ Init
    /\ store \in {StoreOf(u) : u \in PairUsages}

\* two POST /routeModel requests of one identity in flight together
NextPair ==
    \/ \E p \in Procs : LowestIdle(p) /\ RouteStart(p, "u1", 67, 49)
    \/ \E p \in Procs : AdmitRead(p)
    \/ \E p \in Procs : AdmitIncr(p)
    \/ \E p \in Procs : AdmitExpire(p)
    \/ \E p \in Procs : StatusRead(p)
    \/ \E p \in Procs : SelectDecide(p)
    \/ \E p \in Procs, total \in {87, Absent} : ApiReturn(p, total)
    \/ \E p \in Procs : ApiFail(p)
    \/ \E p \in Procs : RecIncr(p)
    \/ \E p \in Procs : RecExpire(p)

SpecPair == InitPair /\ [][NextPair]_vars

\* two identities served together: slot 1 routes a request of u1, slot 2 a
\* request of u2
NextIsolation ==
    \/ RouteStart(1, "u1", 67, 49)
    \/ RouteStart(2, "u2", 67, 49)
    \/ \E p \in Procs : AdmitRead(p)
    \/ \E p \in Procs : AdmitIncr(p)
    \/ \E p \in Procs : AdmitExpire(p)
    \/ \E p \in Procs : StatusRead(p)
    \/ \E p \in Procs : SelectDecide(p)
    \/ \E p \in Procs : ApiReturn(p, 87)
    \/ \E p \in Procs : ApiFail(p)
    \/ \E p \in Procs : RecIncr(p)
    \/ \E p \in Procs : RecExpire(p)

SpecIsolation == InitRoute /\ [][NextIsolation]_vars

\* every operation on the counters: slot 1 serves one POST /routeModel while
\* slot 2 serves GET /quotaStatus, POST /reward and DELETE /resetQuota
\* requests one after the other
NextLedger ==
    \/ RouteStart(1, "u1", 67, 49)
    \/ StatusStart(2, "u1")
    \/ \E rewardType \in RewardTypes, amount \in RewardAmounts :
          RewardStart(2, "u1", rewardType, amount)
    \/ \E u \in Users : ResetStart(2, u)
    \/ AdmitRead(1)
    \/ AdmitIncr(1)
    \/ AdmitExpire(1)
    \/ \E p \in Procs : StatusRead(p)
    \/ SelectDecide(1)
    \/ \E total \in ReportedTokens \cup {Absent} : ApiReturn(1, total)
    \/ ApiFail(1)
    \/ RecIncr(1)
    \/ RecExpire(1)
    \/ RewardIncr(2)
    \/ RewardRead(2)
    \/ ResetKeys(2)
    \/ ResetDel(2)
    \/ Release(2)

SpecLedger == InitPair /\ [][NextLedger]_vars

\* purchases and quota resets: either slot serves POST /verifyPurchase,
\* slot 2 also serves DELETE /resetQuota, and the clock advances
NextPurchase ==
    \/ \E p \in Procs, u \in Users, r \in PurchaseRequests :
          LowestIdle(p) /\ VerifyStart(p, u, r[1], r[2])
    \/ \E u \in Users : ResetStart(2, u)
    \/ \E p \in Procs : VerifyGet(p)
    \/ \E p \in Procs : VerifyStore(p)
    \/ \E p \in Procs : VerifyAck(p)
    \/ ResetKeys(2)
    \/ ResetDel(2)
    \/ Tick

SpecPurchase == InitPair /\ [][NextPurchase]_vars

(* ------------------------------- claims -------------------------------- *)

Dimension(k) == k[2]
IsGlobal(k) == k[1] = "global"
IsUser(k) == k[1] = "user"

\* C1: under any interleaving of concurrent checkAndIncrementLimits calls no
\* request-count limit is exceeded: every global rpm counter is <= 30, every
\* global rpd counter is <= 14400 and every identity's rpd counter is <= 50.
C1_RequestLimitsHold ==
    \A k \in DOMAIN store :
        /\ (IsGlobal(k) /\ Dimension(k) = "rpm") => store[k].val <= GlobalRpmLimit
        /\ (IsGlobal(k) /\ Dimension(k) = "rpd") => store[k].val <= GlobalRpdLimit
        /\ (IsUser(k) /\ Dimension(k) = "rpd") => store[k].val <= UserRpdLimit

\* every call's recorded token count is at most the estimate it was admitted with
ActualWithinEstimate ==
    \A p \in Procs : procs[p].actual <= procs[p].est

\* C2: with any number of admitted requests in flight and every actual token
\* count at most its estimate, after every record the global tpm, global tpd
\* and identity tpd counters are <= 6000, 500000 and 20000.
C2_TokenLimitsHold ==
    (ActualWithinEstimate /\ \E p \in Procs : procs[p].rec = "ok") =>
        \A k \in DOMAIN store :
            /\ (IsGlobal(k) /\ Dimension(k) = "tpm") => store[k].val <= GlobalTpmLimit
            /\ (IsGlobal(k) /\ Dimension(k) = "tpd") => store[k].val <= GlobalTpdLimit
            /\ (IsUser(k) /\ Dimension(k) = "tpd") => store[k].val <= UserTpdLimit

\* p is inside checkAndIncrementLimits
InAdmit(p) == procs[p].pc \in {"admit_read", "admit_incr", "admit_expire"}

\* C3: a checkAndIncrementLimits call that returns allowed:false has executed
\* none of its increments, and no step of it up to and including the
\* rejection changes the value or the expiry of any counter.
C3_RejectionMutatesNothing ==
    [][\A p \in Procs :
          /\ (procs[p].pc = "admit_read" /\ procs'[p] # procs[p]) => store' = store
          /\ (procs'[p].admit = "rejected" /\ procs[p].admit # "rejected") =>
                /\ procs[p].pc = "admit_read"
                /\ procs'[p].incs = {}]_vars

C3_Witness ==
    \E p \in Procs :
        /\ procs[p].admit = "rejected"
        /\ procs[p].reason = UserTpdReason
        /\ procs[p].usage.userTpd = 19950
        /\ procs[p].est = 100

\* the six dimensions in the order the ledger must evaluate them
Precedence == <<"rpm", "rpd", "tpm", "tpd", "userRpd", "userTpd">>

\* the ceiling of a dimension
LimitOf(d) ==
    CASE d = "rpm" -> 30 [] d = "rpd" -> 14400 [] d = "tpm" -> 6000
      [] d = "tpd" -> 500000 [] d = "userRpd" -> 50 [] OTHER -> 20000

\* a request dimension fails at usage >= limit, a token dimension at
\* usage + estimate > limit
Fails(d, usage, estimate) ==
    IF d \in {"rpm", "rpd", "userRpd"} THEN usage[d] >= LimitOf(d)
    ELSE usage[d] + estimate > LimitOf(d)

\* the text that names a dimension
ReasonOf(d) ==
    CASE d = "rpm" -> RpmReason [] d = "rpd" -> RpdReason [] d = "tpm" -> TpmReason
      [] d = "tpd" -> TpdReason [] d = "userRpd" -> UserRpdReason
      [] OTHER -> UserTpdReason

Failing(usage, estimate) ==
    {i \in 1..6 : Fails(Precedence[i], usage, estimate)}

\* the first failing dimension in precedence order
FirstFailing(usage, estimate) ==
    Precedence[CHOOSE i \in Failing(usage, estimate) :
                  \A j \in Failing(usage, estimate) : i <= j]

\* C4: checkAndIncrementLimits goes on to its increments exactly when no
\* dimension fails on the snapshot it read, and otherwise rejects with the
\* reason of the first failing dimension in the order rpm, rpd, tpm, tpd,
\* identity rpd, identity tpd.
C4_FirstFailingDimension ==
    \A p \in Procs :
        /\ procs[p].admit = "rejected" =>
              /\ Failing(procs[p].usage, procs[p].est) # {}
              /\ procs[p].reason = ReasonOf(FirstFailing(procs[p].usage, procs[p].est))
        /\ procs[p].pc \in {"admit_incr", "admit_expire"} =>
              Failing(procs[p].usage, procs[p].est) = {}

C4_Witness ==
    \E p \in Procs :
        /\ procs[p].admit = "rejected"
        /\ procs[p].reason = TpdReason
        /\ Fails("userRpd", procs[p].usage, procs[p].est)
        /\ Fails("userTpd", procs[p].usage, procs[p].est)

\* the counter values of a store, without the expiries
Values(s) == [k \in DOMAIN s |-> s[k].val]

\* the token counters of a store
TokenValues(s) ==
    [k \in {x \in DOMAIN s : Dimension(x) \in {"tpm", "tpd"}} |-> s[k].val]

\* C5: each increment step of checkAndIncrementLimits adds 1 to one request
\* counter and changes no other value; a call that returns allowed:true has
\* executed exactly its three increments (global rpm, global rpd, identity
\* rpd); and a token counter is changed only by a step of recordActualTokenUsage.
C5_AdmitCountsRequestsOnly ==
    [][\A p \in Procs :
          /\ (InAdmit(p) /\ procs'[p] # procs[p]) =>
                /\ TokenValues(store') = TokenValues(store)
                /\ \/ store' = store
                   \/ /\ procs[p].pc = "admit_expire"
                      /\ Values(store') = Values(store)
                   \/ /\ procs[p].pc = "admit_incr"
                      /\ LET key == IncrKey(procs[p].idx, procs[p].userId,
                                            procs[p].minute, procs[p].day)
                         IN  Values(store') = Values(incr(store, key))
          /\ (procs'[p].admit = "allowed" /\ procs[p].admit # "allowed") =>
                procs'[p].incs = {1, 2, 3}
          /\ (procs'[p] # procs[p] /\ TokenValues(store') # TokenValues(store)) =>
                procs[p].pc = "rec_incr"]_vars

C5_Witness ==
    /\ \A p \in Procs :
          /\ procs[p].admit = "allowed"
          /\ procs[p].rec = "none"
          /\ procs[p].userId = "u2"
    /\ getCounter(store, userRpdKey("u2", 0)) = 2
    /\ getCounter(store, userTpdKey("u2", 0)) = 0
    /\ getCounter(store, globalRpmKey(0)) = 2

\* C6: when a Redis command fails inside checkAndIncrementLimits the request
\* is not admitted: selectModel is not called, no completion call is made,
\* nothing is recorded and the router returns a non-success result.
C6_StoreFailureFailsClosed ==
    \A p \in Procs :
        procs[p].admit = "threw" =>
            /\ procs[p].pc = "done"
            /\ procs[p].result = "error"
            /\ procs[p].model = "none"
            /\ procs[p].api = "none"
            /\ procs[p].rec = "none"

C6_Witness ==
    \E p \in Procs :
        /\ procs[p].admit = "threw"
        /\ procs[p].incs = {1}

\* C7: when Redis is unavailable checkAndIncrementLimits returns allowed:false
\* and recordActualTokenUsage returns success:false; neither throws.
C7_NoThrowPastBoundary ==
    \A p \in Procs : procs[p].admit # "threw"

\* p executes the synchronous block of selectModel in this step
Decides(p) == procs[p].pc = "select_decide" /\ procs'[p].pc # "select_decide"

\* C8: while the fallback deadline is set and in the future, every selectModel
\* call returns the fallback model, whatever usage it read and whatever
\* preferred model it was given, and no step clears or changes the deadline.
C8_HysteresisHold ==
    [][InHold(fallbackModeUntil, now * 1000) =>
          /\ fallbackModeUntil' = fallbackModeUntil
          /\ \A p \in Procs : Decides(p) => procs'[p].model = MODELS.fallback]_vars

C8_Witness ==
    \E p \in Procs :
        /\ procs[p].op = "route"
        /\ procs[p].pc = "call"
        /\ procs[p].preferred = "llama-3.3-70b-versatile"
        /\ procs[p].model = MODELS.fallback
        /\ ~OverThreshold(procs[p].usage)
        /\ InHold(fallbackModeUntil, now * 1000)

\* C9: once a trip has set the deadline, no selectModel call returns a
\* non-fallback model unless the deadline has passed and both fractions it
\* read are below 0.50.
C9_RecoveryBeforePrimary ==
    [][\A p \in Procs :
          (Decides(p) /\ fallbackModeUntil # Null /\ procs'[p].model # MODELS.fallback) =>
              /\ ~InHold(fallbackModeUntil, now * 1000)
              /\ procs[p].usage.tpd * 2 < 500000
              /\ procs[p].usage.rpm * 2 < 30]_vars

\* either fraction strictly above 0.70
Trips(usage) == usage.tpd * 10 > 7 * 500000 \/ usage.rpm * 10 > 7 * 30

\* C10: a selectModel call made while no hold is active sets the deadline to
\* now + 5 minutes and returns the fallback model when a fraction is strictly
\* above 0.70; otherwise it returns the preferred model (the default model
\* when none is given) and sets no deadline.
C10_TripExactlyAboveThreshold ==
    [][\A p \in Procs :
          (Decides(p) /\ ~InHold(fallbackModeUntil, now * 1000)) =>
              IF Trips(procs[p].usage)
              THEN /\ fallbackModeUntil' = now * 1000 + 300000
                   /\ procs'[p].model = MODELS.fallback
              ELSE /\ fallbackModeUntil' \in {fallbackModeUntil, Null}
                   /\ procs'[p].model =
                        (IF procs'[p].preferred = "" THEN "llama-3.1-8b-instant"
                         ELSE procs'[p].preferred)]_vars

C10_Witness ==
    \E p \in Procs :
        /\ procs[p].pc = "call"
        /\ procs[p].usage.rpm = 22
        /\ procs[p].usage.tpd = 350000
        /\ procs[p].model = MODELS.fallback
        /\ fallbackModeUntil = now * 1000 + FALLBACK_DURATION_MS

\* the ledger keys of second 0, for every identity
LedgerKeys == {UsageKey(i, u, 0, 0) : i \in 1..6, u \in Users}

\* the stores a pair of routed requests starts from
PairStores == {StoreOf(u) : u \in PairUsages}

\* what the commands of p's checkAndIncrementLimits (one incr per key) and of
\* its recordActualTokenUsage (one incrby per key) have added to key k
AddedBy(p, k) ==
    (IF \E i \in procs[p].incs : IncrKey(i, procs[p].userId, 0, 0) = k
     THEN 1 ELSE 0)
    + (IF \E i \in procs[p].recs : RecordKey(i, procs[p].userId, 0, 0) = k
       THEN procs[p].actual ELSE 0)

RECURSIVE AddedSum(_, _)
AddedSum(ps, k) ==
    IF ps = {} THEN 0
    ELSE LET p == CHOOSE x \in ps : TRUE
         IN  AddedBy(p, k) + AddedSum(ps \ {p}, k)

\* C11: no update is lost under concurrency: with every request in the same
\* minute and day bucket and nothing expiring, every counter holds the value
\* it started with plus one for every increment an admit has executed on it
\* plus every amount a record has added to it.
C11_NoLostUpdate ==
    \E initial \in PairStores :
        \A k \in LedgerKeys \cup DOMAIN store :
            getCounter(store, k) = getCounter(initial, k) + AddedSum(Procs, k)

C11_Witness ==
    /\ \A p \in Procs : procs[p].rec = "ok" /\ procs[p].userId = "u1"
    /\ procs[1].actual = 87
    /\ procs[2].actual = 100
    /\ getCounter(store, globalRpmKey(0)) = 2
    /\ getCounter(store, userRpdKey("u1", 0)) = 2
    /\ getCounter(store, globalTpmKey(0)) = 187
    /\ getCounter(store, userTpdKey("u1", 0)) = 187

\* p is inside recordActualTokenUsage
InRecord(p) == procs[p].pc \in {"rec_incr", "rec_expire"}

\* C12: recordActualTokenUsage is entered exactly once per request whose
\* completion call returned, in the step in which the call returns; a request
\* that was rejected or whose call failed never enters it; and when the call
\* fails the three request counters keep the increments of the admission.
C12_RecordOncePerCompletion ==
    [][\A p \in Procs :
          /\ (InRecord(p)' /\ ~InRecord(p)) =>
                /\ procs[p].pc = "call"
                /\ procs[p].api = "pending"
                /\ procs'[p].api = "returned"
                /\ procs[p].recs = {}
          /\ (procs'[p].api = "returned" /\ procs[p].api # "returned") => InRecord(p)'
          /\ procs[p].api = "returned" =>
                /\ procs'[p].api = "returned"
                /\ procs'[p].pc \in {"rec_incr", "rec_expire", "done"}
          /\ (procs'[p].admit = "rejected" \/ procs'[p].api = "failed") =>
                /\ procs'[p].pc = "done"
                /\ procs'[p].rec = "none"
                /\ procs'[p].recs = {}
          /\ (procs'[p].api = "failed" /\ procs[p].api # "failed") =>
                /\ procs'[p].incs = {1, 2, 3}
                /\ store' = store
          /\ procs[p].api = "failed" =>
                \A i \in 1..3 :
                    LET key == IncrKey(i, procs[p].userId, 0, 0)
                    IN  getCounter(store', key) >= getCounter(store, key)]_vars

C12_Witness ==
    /\ procs[1].api = "failed"
    /\ procs[1].result = "error"
    /\ procs[1].rec = "none"
    /\ procs[2].rec = "ok"
    /\ store = [k \in {globalRpmKey(0), globalRpdKey(0), userRpdKey("u1", 0),
                       globalTpmKey(0), globalTpdKey(0), userTpdKey("u1", 0)} |->
                 [val |-> IF Dimension(k) \in {"rpm", "rpd"} THEN 2 ELSE 87,
                  exp |-> IF Dimension(k) \in {"rpm", "tpm"} THEN MinuteTtl ELSE DayTtl]]

\* C13: a routed request reaches selectModel only after checkAndIncrementLimits
\* returned allowed:true and reaches the completion call only after selectModel
\* chose the model; a rejected request ends with the rejection reason and the
\* remaining-quota figures of the snapshot it was rejected on, without a
\* selectModel call and without a completion call.
C13_AdmitSelectCall ==
    \A p \in Procs :
        /\ procs[p].pc \in {"status_read", "select_decide"} =>
              procs[p].admit = "allowed" /\ procs[p].api = "none"
        /\ procs[p].model # "none" => procs[p].admit = "allowed"
        /\ procs[p].api # "none" =>
              procs[p].admit = "allowed" /\ procs[p].model # "none"
        /\ procs[p].admit = "rejected" =>
              /\ procs[p].pc = "done"
              /\ procs[p].result = "rejected"
              /\ procs[p].model = "none"
              /\ procs[p].api = "none"
              /\ LET left == remainingQuota(procs[p].usage)
                 IN  \/ procs[p].reason = RpmReason /\ left.requestsPerMinute <= 0
                     \/ procs[p].reason = RpdReason /\ left.requestsPerDay <= 0
                     \/ procs[p].reason = TpmReason
                          /\ left.tokensPerMinute < procs[p].est
                     \/ procs[p].reason = TpdReason
                          /\ left.tokensPerDay < procs[p].est
                     \/ procs[p].reason \in {UserRpdReason, UserTpdReason}

C13_Witness ==
    /\ procs[1].rec = "ok"
    /\ procs[1].model # "none"
    /\ procs[2].admit = "rejected"
    /\ procs[2].reason = TpmReason
    /\ remainingQuota(procs[2].usage).tokensPerMinute = 13

\* the three counters a record for identity userId made at second t must charge
TokenCounter(i, userId, t) ==
    CASE i = 1 -> <<"global", "tpm", t \div 60>>
      [] i = 2 -> <<"global", "tpd", t \div 86400>>
      [] OTHER -> <<"user", "tpd", userId, t \div 86400>>

\* s and t hold the same keys with the same values and expiries, except at key
SameExceptAt(s, t, key) ==
    /\ DOMAIN s \ {key} = DOMAIN t \ {key}
    /\ \A k \in DOMAIN s \ {key} : s[k] = t[k]

\* C14: recordActualTokenUsage(identity, t) adds exactly t to the global tpm
\* counter of the current minute, to the global tpd counter of the current day
\* and to the identity's tpd counter, sets the expiry of each counter that is
\* still there to 60 s, 86400 s and 86400 s from now, and changes nothing else:
\* no request counter and no other key.
C14_RecordChargesTokenCounters ==
    [][\A p \in Procs :
          /\ (InRecord(p)' /\ ~InRecord(p)) =>
                /\ procs'[p].minute = now \div 60
                /\ procs'[p].day = now \div 86400
          /\ (InRecord(p) /\ procs'[p] # procs[p]) =>
                LET q == procs[p]
                    key == TokenCounter(q.idx, q.userId, q.minute * 60)
                IN  /\ SameExceptAt(store, store', key)
                    /\ \/ store' = store /\ procs'[p].rec = "failed"
                       \/ /\ q.pc = "rec_incr"
                          /\ procs'[p].recs = q.recs \cup {q.idx}
                          /\ store'[key].val = getCounter(store, key) + q.actual
                          /\ key \in DOMAIN store => store'[key].exp = store[key].exp
                       \/ /\ q.pc = "rec_expire"
                          /\ Values(store') = Values(store)
                          /\ key \in DOMAIN store =>
                                store'[key].exp =
                                    now + (IF q.idx = 1 THEN 60 ELSE 86400)
          /\ (procs'[p].rec = "ok" /\ procs[p].rec # "ok") =>
                procs[p].recs = {1, 2, 3} /\ procs[p].idx = 3]_vars

C14_Witness ==
    /\ procs[1].rec = "ok"
    /\ procs[1].userId = "u1"
    /\ procs[1].actual = 87
    /\ procs[2].pc = "idle"
    /\ now = 0
    /\ store = [k \in {globalRpmKey(0), globalRpdKey(0), userRpdKey("u1", 0),
                       globalTpmKey(0), globalTpdKey(0), userTpdKey("u1", 0)} |->
                 [val |-> IF Dimension(k) \in {"rpm", "rpd"} THEN 1 ELSE 87,
                  exp |-> IF Dimension(k) \in {"rpm", "tpm"} THEN 60 ELSE 86400]]

\* the counter k of store s outlives second t
Alive(s, k, t) == s[k].exp = NoExpiry \/ s[k].exp > t

\* C15: under every sequence of admit, record, status, select, reward
\* crediting and quota reset, every counter is non-negative, and a counter
\* whose TTL has not elapsed is still there after the step with a value that
\* is not smaller.
C15_CountersNeverDecrease ==
    [][/\ \A k \in DOMAIN store' : store'[k].val >= 0
       /\ \A k \in DOMAIN store :
             Alive(store, k, now') =>
                 k \in DOMAIN store' /\ store'[k].val >= store[k].val]_vars

\* the counter of the i-th dimension for a call of identity userId at second t
CounterOf(i, userId, t) ==
    CASE i = 1 -> <<"global", "rpm", t \div 60>>
      [] i = 2 -> <<"global", "rpd", t \div 86400>>
      [] i = 3 -> <<"global", "tpm", t \div 60>>
      [] i = 4 -> <<"global", "tpd", t \div 86400>>
      [] i = 5 -> <<"user", "rpd", userId, t \div 86400>>
      [] OTHER -> <<"user", "tpd", userId, t \div 86400>>

\* the keys whose entry differs between s and t
Changed(s, t) ==
    {k \in DOMAIN s \cup DOMAIN t :
        k \notin DOMAIN s \/ k \notin DOMAIN t \/ s[k] # t[k]}

\* C16: a checkAndIncrementLimits or recordActualTokenUsage call made at a
\* second of minute (day) bucket B changes only counters keyed by B, and each
\* read of an admit returns the value of the counter keyed by B; the clock
\* changes no counter other than by removing those whose TTL has elapsed, and
\* a counter whose TTL has elapsed reads 0.
C16_BucketIndependence ==
    [][/\ \A p \in Procs :
            /\ (procs[p].pc \in {"idle", "call"} /\ (InAdmit(p) \/ InRecord(p))') =>
                  /\ procs'[p].minute = now \div 60
                  /\ procs'[p].day = now \div 86400
            /\ (store' # store /\ (InAdmit(p) \/ InRecord(p))
                  /\ procs'[p] # procs[p]) =>
                  \A k \in Changed(store, store') :
                      \E i \in 1..6 :
                          k = CounterOf(i, procs[p].userId, procs[p].minute * 60)
            /\ (procs[p].pc = "admit_read" /\ procs'[p] # procs[p]
                  /\ procs'[p].admit # "threw") =>
                  procs'[p].usage =
                      [procs[p].usage EXCEPT ![Precedence[procs[p].idx]] =
                          getCounter(store, CounterOf(procs[p].idx, procs[p].userId,
                                                      procs[p].minute * 60))]
       /\ now' # now =>
            /\ \A k \in DOMAIN store' : k \in DOMAIN store /\ store'[k] = store[k]
            /\ \A k \in DOMAIN store \ DOMAIN store' :
                  store[k].exp # NoExpiry /\ store[k].exp <= now'
       /\ \A k \in DOMAIN store :
            (store[k].exp # NoExpiry /\ store[k].exp <= now') =>
                getCounter(store', k) = 0]_vars

C16_Witness ==
    /\ now = 60
    /\ procs[1].admit = "allowed"
    /\ procs[1].pc = "call"
    /\ procs[1].usage.rpm = 1
    /\ getCounter(store, globalRpmKey(1)) = 1
    /\ getCounter(store, globalRpmKey(0)) = 0
    /\ getCounter(store, globalRpdKey(0)) = 1
    /\ getCounter(store, globalTpdKey(0)) = 350000

\* C17: when a Redis command fails inside recordActualTokenUsage, after the
\* completion call returned, routeModelRequest still answers success with the
\* model used and the token count of the completion.
C17_RecordFailureStillSucceeds ==
    \A p \in Procs :
        procs[p].rec = "failed" =>
            /\ procs[p].api = "returned"
            /\ procs[p].pc = "done"
            /\ procs[p].result = "success"
            /\ procs[p].model \in {MODELS.default, MODELS.fallback} \cup PreferredChoices
            /\ procs[p].model # ""
            /\ procs[p].actual \in {procs[p].total, procs[p].est}
            /\ procs[p].actual > 0

C17_Witness ==
    \E p \in Procs :
        /\ procs[p].rec = "failed"
        /\ procs[p].recs = {1}
        /\ procs[p].total = 87
        /\ getCounter(store, globalTpmKey(0)) = 87
        /\ getCounter(store, globalTpdKey(0)) = 0

\* p is inside getQuotaStatus or in the synchronous block of selectModel
InStatusOrSelect(p) == procs[p].pc \in {"status_read", "select_decide"}

\* C18: no step of getQuotaStatus and no step of selectModel changes the value
\* or the expiry of a counter or creates or removes one, and no step of a
\* GET /quotaStatus request changes the fallback deadline.
C18_StatusAndSelectReadOnly ==
    [][\A p \in Procs :
          /\ (InStatusOrSelect(p) /\ procs'[p] # procs[p]) => store' = store
          /\ (procs'[p].op = "status" /\ procs'[p] # procs[p]) =>
                /\ store' = store
                /\ fallbackModeUntil' = fallbackModeUntil]_vars

C18_Witness ==
    /\ procs[2].op = "status"
    /\ procs[2].result = "success"
    /\ procs[2].usage.rpd = 1
    /\ procs[2].usage.userTpd = 19800
    /\ procs[1].pc = "call"
    /\ procs[1].model = MODELS.fallback
    /\ fallbackModeUntil = FALLBACK_DURATION_MS

\* the counters the finished operation of p has written
WrittenBy(p) ==
    LET q == procs[p]
    IN  IF q.op = "reward"
        THEN {<<IF q.rewardType = "tokens" THEN "tpd" ELSE "rpd", q.userId, q.day>>}
        ELSE IF q.op = "route"
        THEN {CounterOf(i, q.userId, q.minute * 60) : i \in 1..6}
        ELSE {}

\* no operation is in flight and no Redis command of a finished one failed
QuietAndClean ==
    \A p \in Procs :
        /\ procs[p].pc \in {"idle", "done"}
        /\ procs[p].result # "error"
        /\ procs[p].rec # "failed"

\* C19: once an admit and record, or a reward credit, has completed, with no
\* other operation in flight and no Redis command failed, every counter it
\* has written that is in the store has an expiry attached; no operation
\* leaves a counter that never expires.
C19_EveryCounterExpires ==
    QuietAndClean =>
        \A p \in Procs :
            procs[p].result = "success" =>
                \A k \in WrittenBy(p) \cap DOMAIN store : store[k].exp # NoExpiry

\* C20: the amount the router records is the total_tokens of the completion
\* whenever the completion carries one, 0 included, and the estimate made
\* before the call only when the completion carries none.
C20_RecordsReportedTotal ==
    \A p \in Procs :
        procs[p].api = "returned" =>
            procs[p].actual =
                (IF procs[p].total = Absent THEN procs[p].est ELSE procs[p].total)

\* C21: the three request-counter increments of one checkAndIncrementLimits
\* call are all-or-nothing: once the call has ended, by a return or by a throw,
\* either Redis has executed all three of its increments and it returned
\* allowed:true, or Redis has executed none of them.
C21_IncrementsAllOrNothing ==
    \A p \in Procs :
        procs[p].admit # "none" =>
            \/ procs[p].incs = {}
            \/ procs[p].incs = {1, 2, 3} /\ procs[p].admit = "allowed"

OwnerOf(k) == k[3]

\* what the six reads of a checkAndIncrementLimits call for userId return on store s
Snapshot(s, userId, minute, day) ==
    [rpm |-> getCounter(s, UsageKey(1, userId, minute, day)),
     rpd |-> getCounter(s, UsageKey(2, userId, minute, day)),
     tpm |-> getCounter(s, UsageKey(3, userId, minute, day)),
     tpd |-> getCounter(s, UsageKey(4, userId, minute, day)),
     userRpd |-> getCounter(s, UsageKey(5, userId, minute, day)),
     userTpd |-> getCounter(s, UsageKey(6, userId, minute, day))]

\* store s with every per-identity counter of the identities other than b set to v
OthersSetTo(s, b, v) ==
    [k \in DOMAIN s |->
        IF IsUser(k) /\ OwnerOf(k) # b THEN [s[k] EXCEPT !.val = v] ELSE s[k]]

\* C23: a step of checkAndIncrementLimits or recordActualTokenUsage for one
\* identity changes no per-identity counter of another identity and reads, as
\* per-identity usage, its own identity's counters; and in every store the
\* verdict of the limit checks for an identity is the same whatever the
\* per-identity counters of the other identities hold.
C23_IdentityIsolation ==
    [][/\ \A p \in Procs :
            /\ (store' # store /\ (InAdmit(p) \/ InRecord(p))
                  /\ procs'[p] # procs[p]) =>
                  \A k \in Changed(store, store') :
                      IsUser(k) => OwnerOf(k) = procs[p].userId
            /\ (procs[p].pc = "admit_read" /\ procs[p].idx >= 5
                  /\ procs'[p] # procs[p] /\ procs'[p].admit # "threw") =>
                  procs'[p].usage[Precedence[procs[p].idx]] =
                      getCounter(store,
                          <<"user", IF procs[p].idx = 5 THEN "rpd" ELSE "tpd",
                            procs[p].userId, procs[p].day>>)
       /\ \A b \in Users, v \in {0, 20000} :
            checkLimits(Snapshot(OthersSetTo(store, b, v), b, 0, 0), 100)
                = checkLimits(Snapshot(store, b, 0, 0), 100)]_vars

C23_Witness ==
    /\ procs[1].userId = "u1"
    /\ procs[1].admit = "rejected"
    /\ procs[1].reason = UserTpdReason
    /\ procs[2].userId = "u2"
    /\ procs[2].rec = "ok"
    /\ procs[2].actual = 87
    /\ getCounter(store, userTpdKey("u1", 0)) = 19950
    /\ getCounter(store, userTpdKey("u2", 0)) = 87
    /\ getCounter(store, userRpdKey("u1", 0)) = 0
    /\ getCounter(store, userRpdKey("u2", 0)) = 1

\* C24: a quota reset for identity X deletes nothing but X's own
\* per-identity quota counters; the global counters, the counters of the
\* other identities and the stored purchase records are left as they were
C24_ResetFrame ==
    [][\A p \in Procs :
          (procs[p].pc = "reset_del" /\ procs'[p] # procs[p]) =>
              \A k \in Changed(store, store') :
                  IsUser(k) /\ OwnerOf(k) = procs[p].userId]_vars

\* the instant at which the minute or day named by a ledger key ends
BucketEnd(k) ==
    (k[Len(k)] + 1) * (IF k[2] \in {"rpm", "tpm"} THEN SecondsPerMinute
                       ELSE SecondsPerDay)

Covered(s) ==
    \A k \in DOMAIN s :
        (IsGlobal(k) \/ IsUser(k)) =>
            s[k].exp = NoExpiry \/ s[k].exp >= BucketEnd(k)

\* C25: the expiry instant of a ledger counter is never earlier than the end
\* of the minute or day its key names, and a counter that expiry removes
\* belongs to a minute or day that is over
C25_LiveBucketNotReaped ==
    /\ Covered(store)
    /\ [][/\ store' # store => Covered(store')
          /\ now' # now =>
                \A k \in DOMAIN store \ DOMAIN store' :
                    (IsGlobal(k) \/ IsUser(k)) => BucketEnd(k) <= now']_vars

C25_Witness ==
    /\ now = 60
    /\ <<"global", "rpm", 0>> \notin DOMAIN store
    /\ <<"global", "rpm", 1>> \in DOMAIN store
    /\ store[<<"global", "rpm", 1>>] = [val |-> 1, exp |-> 120]
    /\ <<"global", "rpd", 0>> \in DOMAIN store
    /\ store[<<"global", "rpd", 0>>] = [val |-> 1, exp |-> 86460]
    /\ <<"global", "tpd", 0>> \in DOMAIN store
    /\ store[<<"global", "tpd", 0>>].val >= 300000
    /\ store[<<"global", "tpd", 0>>].exp = 86400

\* what admit leaves an identity on its own token (or request) dimension:
\* the per-identity limit less the counter admit checks against it
Headroom(s, rewardType, userId, day) ==
    IF rewardType = "tokens"
    THEN UserTpdLimit - getCounter(s, userTpdKey(userId, day))
    ELSE UserRpdLimit - getCounter(s, userRpdKey(userId, day))

\* C26: crediting a reward of N tokens (or requests) to identity X raises by
\* N the headroom admit enforces for X on the identity-tpd (or identity-rpd)
\* dimension
C26_RewardRaisesHeadroom ==
    [][\A p \in Procs :
          (/\ procs[p].pc = "reward_incr" /\ procs'[p].pc = "reward_read"
           /\ procs[p].amount > 0) =>
              Headroom(store', procs[p].rewardType, procs[p].userId, procs[p].day)
                  = Headroom(store, procs[p].rewardType, procs[p].userId,
                             procs[p].day) + procs[p].amount]_vars

\* C27: a purchase is granted at most once; of the verifyPurchase calls that
\* carry one purchase token, which the storefront keeps reporting as
\* purchased and not consumed, at most one is answered valid:true with
\* tokensGranted > 0
C27_GrantedAtMostOnce ==
    \A t \in PurchaseTokens :
        (play[t].purchaseState = 0 /\ play[t].consumptionState = 0) =>
            Cardinality({p \in Procs : /\ procs[p].op = "verify"
                                       /\ procs[p].token = t
                                       /\ procs[p].result = "success"
                                       /\ procs[p].granted > 0}) <= 1

TypeOK ==
    /\ now \in Nat
    /\ \A k \in DOMAIN store : k[1] # "purchase" => store[k].val \in Nat

====
